---- MODULE Spec2Model ----
(***************************************************************************)
(* lerp.mesh: a lookup table (Mesh) over a rectilinear grid and its        *)
(* interpolation, derivate and resample methods.                           *)
(*                                                                         *)
(* Numbers are exact rationals <<n, d>> (d > 0, lowest terms); an array is *)
(* a record [shape, flat] holding its shape and its row-major (C order)    *)
(* buffer; a Python scalar is the array of shape <<>>.                     *)
(***************************************************************************)
EXTENDS Integers, Sequences, FiniteSets, TLC

VARIABLES mesh, last, pc, options, work, kept

vars == <<mesh, last, pc, options, work, kept>>

----------------------------------------------------------------------------
(* Bounds of the model                                                     *)

MaxNdim == 2
MaxLen == 3
MaxBp == 2
MaxCoord == 1
MaxVal == 1
MaxKnots == 3
MaxKnotCoord == 3
MaxSample == 1
MaxSlope == 2
MaxWrites == 2

----------------------------------------------------------------------------
(* Exact rational arithmetic                                               *)

Abs(n) == IF n < 0 THEN -n ELSE n

RECURSIVE GCD(_, _)
GCD(a, b) == IF b = 0 THEN a ELSE GCD(b, a % b)

Norm(n, d) ==
    LET s == IF d < 0 THEN -1 ELSE 1
        g == GCD(Abs(n), Abs(d))
    IN  <<(s * n) \div g, (s * d) \div g>>

R(n) == <<n, 1>>
Half == <<1, 2>>
RAdd(a, b) == Norm(a[1] * b[2] + b[1] * a[2], a[2] * b[2])
RSub(a, b) == Norm(a[1] * b[2] - b[1] * a[2], a[2] * b[2])
RMul(a, b) == Norm(a[1] * b[1], a[2] * b[2])
RDiv(a, b) == Norm(a[1] * b[2], a[2] * b[1])
RLt(a, b) == a[1] * b[2] < b[1] * a[2]
RLe(a, b) == a[1] * b[2] <= b[1] * a[2]
RAbs(a) == <<Abs(a[1]), a[2]>>
RSign(a) == IF a[1] > 0 THEN 1 ELSE IF a[1] < 0 THEN -1 ELSE 0

----------------------------------------------------------------------------
(* Arrays                                                                  *)

RECURSIVE Prod(_)
Prod(s) == IF s = <<>> THEN 1 ELSE Head(s) * Prod(Tail(s))

RECURSIVE SeqMax(_)
SeqMax(s) ==
    IF Len(s) = 1 THEN s[1]
    ELSE LET r == SeqMax(Tail(s)) IN IF s[1] > r THEN s[1] ELSE r

Scalar(r) == [shape |-> <<>>, flat |-> <<r>>]
Vec(s) == [shape |-> <<Len(s)>>, flat |-> s]
IsScalar(a) == a.shape = <<>>
Size(a) == Prod(a.shape)

(* The multi-index (1-based) of the k-th element of a row-major buffer.    *)
RECURSIVE Unravel(_, _)
Unravel(shape, k) ==
    IF shape = <<>> THEN <<>>
    ELSE LET inner == Prod(Tail(shape))
         IN  <<((k - 1) \div inner) + 1>> \o Unravel(Tail(shape), ((k - 1) % inner) + 1)

(* The position in the row-major buffer of a multi-index.                  *)
RECURSIVE Ravel(_, _)
Ravel(shape, idx) ==
    IF shape = <<>> THEN 1
    ELSE (Head(idx) - 1) * Prod(Tail(shape)) + Ravel(Tail(shape), Tail(idx))

----------------------------------------------------------------------------
(* The method enumerations: LookUpEnum numbers its names from 1, and the    *)
(* native routines are handed the numbers.                                 *)

RECURSIVE IndexOf(_, _)
IndexOf(s, e) == IF Head(s) = e THEN 1 ELSE 1 + IndexOf(Tail(s), e)

Range(s) == {s[i] : i \in 1..Len(s)}

InterpNames == <<"hold", "nearest", "linear", "akima", "fritsch_butland", "steffen">>
ExtrapNames == <<"hold", "linear">>

(* Variant of the extrapolation enumeration: numbered from 0.              *)
ExtrapFromZero ==
    [name \in {ExtrapNames[i] : i \in 1..Len(ExtrapNames)} |->
        IndexOf(ExtrapNames, name) - 1]

INTERP_METH == [name \in Range(InterpNames) |-> IndexOf(InterpNames, name)]
EXTRAP_METH == [name \in Range(ExtrapNames) |-> IndexOf(ExtrapNames, name)]

AXES == <<"x", "y", "z", "v", "w">>

----------------------------------------------------------------------------
(* The lookup engine behind libNDTable's evaluate_interpolation: bracket   *)
(* search, extrapolation policy and the interpolation methods, one         *)
(* dimension at a time.                                                    *)

StrictlyIncreasing(bp) == \A i \in 1..(Len(bp) - 1) : RLt(bp[i], bp[i + 1])

(* Binary search of the interval lo with bp[lo] <= x < bp[lo + 1], given   *)
(* bp[lo] <= x < bp[hi].                                                   *)
RECURSIVE BSearch(_, _, _, _)
BSearch(bp, x, lo, hi) ==
    IF hi - lo <= 1 THEN lo
    ELSE LET mid == (lo + hi) \div 2
         IN  IF RLe(bp[mid], x) THEN BSearch(bp, x, mid, hi)
             ELSE BSearch(bp, x, lo, mid)

Fraction(bp, i, x) == RDiv(RSub(x, bp[i]), RSub(bp[i + 1], bp[i]))

(* The bracketing interval i and the fractional position t in it. A point  *)
(* below the first or at/above the last breakpoint is out of range: under  *)
(* hold its coordinate is clamped to the boundary, under linear the        *)
(* outermost interval is used and t leaves [0, 1].                         *)
FindIndex(bp, x, extrap) ==
    LET n == Len(bp) IN
    IF n = 1 THEN [i |-> 1, t |-> R(0)]
    ELSE IF RLt(x, bp[1]) THEN
        [i |-> 1, t |-> IF extrap = "hold" THEN R(0) ELSE Fraction(bp, 1, x)]
    ELSE IF RLe(bp[n], x) THEN
        [i |-> n - 1, t |-> IF extrap = "hold" THEN R(1) ELSE Fraction(bp, n - 1, x)]
    ELSE LET i == BSearch(bp, x, 1, n) IN [i |-> i, t |-> Fraction(bp, i, x)]

Lerp(t, v0, v1) == RAdd(RMul(RSub(R(1), t), v0), RMul(t, v1))

(* Slope estimates at an interior knot from the secants a (left) and b     *)
(* (right); aa and bb are the next secants outwards, when there are any.   *)
SteffenSlope(a, b) ==
    IF RSign(a) * RSign(b) > 0
    THEN (IF RLe(RAbs(a), RAbs(b)) THEN a ELSE b)
    ELSE R(0)

FritschButlandSlope(a, b) ==
    IF RSign(a) * RSign(b) <= 0 THEN R(0)
    ELSE RDiv(RMul(R(2), RMul(a, b)), RAdd(a, b))

AkimaSlope(aa, a, b, bb) ==
    LET w1 == RAbs(RSub(bb, b))
        w2 == RAbs(RSub(a, aa))
    IN  IF RAdd(w1, w2) = R(0) THEN RMul(Half, RAdd(a, b))
        ELSE RDiv(RAdd(RMul(w1, a), RMul(w2, b)), RAdd(w1, w2))

Hermite(t, h, v0, m0, v1, m1) ==
    LET t2 == RMul(t, t)
        t3 == RMul(t2, t)
        h00 == RAdd(RSub(RMul(R(2), t3), RMul(R(3), t2)), R(1))
        h10 == RAdd(RSub(t3, RMul(R(2), t2)), t)
        h01 == RSub(RMul(R(3), t2), RMul(R(2), t3))
        h11 == RSub(t3, t2)
    IN  RAdd(RAdd(RMul(h00, v0), RMul(h10, RMul(h, m0))),
             RAdd(RMul(h01, v1), RMul(h11, RMul(h, m1))))

(* The value at point pt of the sub-table selected by the indices idx of   *)
(* the dimensions before d: the interpolation along dimension d of the     *)
(* values of the following dimensions.                                     *)
RECURSIVE EvalDim(_, _, _, _, _, _)
EvalDim(m, pt, interp, extrap, d, idx) ==
    IF d > Len(m.coords) THEN m.data.flat[Ravel(m.data.shape, idx)]
    ELSE
    LET bp == m.coords[d]
        n == Len(bp)
        V(j) == EvalDim(m, pt, interp, extrap, d + 1, Append(idx, j))
        fi == FindIndex(bp, pt[d], extrap)
        i == fi.i
        t == fi.t
        Secant(j) == RDiv(RSub(V(j + 1), V(j)), RSub(bp[j + 1], bp[j]))
        Slope(k) ==
            IF k = 1 THEN Secant(1)
            ELSE IF k = n THEN Secant(n - 1)
            ELSE CASE interp = "steffen" -> SteffenSlope(Secant(k - 1), Secant(k))
                   [] interp = "fritsch_butland" ->
                        FritschButlandSlope(Secant(k - 1), Secant(k))
                   [] OTHER ->
                        IF k - 2 >= 1 /\ k + 1 <= n - 1
                        THEN AkimaSlope(Secant(k - 2), Secant(k - 1),
                                        Secant(k), Secant(k + 1))
                        ELSE RMul(Half, RAdd(Secant(k - 1), Secant(k)))
    IN  IF n = 1 THEN V(1)
        ELSE CASE interp = "hold" -> IF RLt(t, R(1)) THEN V(i) ELSE V(i + 1)
               [] interp = "nearest" -> IF RLe(t, Half) THEN V(i) ELSE V(i + 1)
               [] interp = "linear" -> Lerp(t, V(i), V(i + 1))
               [] OTHER ->
                    IF RLt(t, R(0)) \/ RLt(R(1), t) THEN Lerp(t, V(i), V(i + 1))
                    ELSE Hermite(t, RSub(bp[i + 1], bp[i]),
                                 V(i), Slope(i), V(i + 1), Slope(i + 1))

EvalPoint(m, pt, interp, extrap) == EvalDim(m, pt, interp, extrap, 1, <<>>)

ValidGrid(m) == \A d \in 1..Len(m.coords) : StrictlyIncreasing(m.coords[d])

----------------------------------------------------------------------------
(* The native routines as mesh.py calls them. They receive raw buffers and *)
(* the number n of points: reading a buffer past its end yields whatever   *)
(* lies there (u.fill), and on a table whose breakpoints are not strictly  *)
(* increasing the outcome is not defined (u.res with u.fill everywhere).   *)

NoValue == [shape |-> <<>>, flat |-> <<>>]
NoMesh == [dims |-> <<>>, coords |-> <<>>, data |-> NoValue]

ReadBuf(buf, k, u) == IF k <= Len(buf) THEN buf[k] ELSE u.fill

PointAt(arrs, k, u) == [d \in 1..Len(arrs) |-> ReadBuf(arrs[d].flat, k, u)]

(* A method number outside the enumeration is refused.                     *)
KnownMethods(interp, extrap) ==
    interp \in 1..Len(InterpNames) /\ extrap \in 1..Len(ExtrapNames)

evaluate_interpolation(m, arrs, n, interp, extrap, u) ==
    IF ~KnownMethods(interp, extrap)
    THEN [res |-> 1, values |-> [k \in 1..n |-> u.fill]]
    ELSE IF ~ValidGrid(m) THEN [res |-> u.res, values |-> [k \in 1..n |-> u.fill]]
    ELSE [res |-> 0,
          values |-> [k \in 1..n |->
              EvalPoint(m, PointAt(arrs, k, u), InterpNames[interp], ExtrapNames[extrap])]]

(* The finite-difference estimate at one point: the sum over the           *)
(* dimensions of the difference quotient with that dimension's step.       *)
RECURSIVE DiffSum(_, _, _, _, _, _)
DiffSum(m, pt, h, interp, extrap, d) ==
    IF d = 0 THEN R(0)
    ELSE LET moved == [pt EXCEPT ![d] = RAdd(pt[d], h[d])]
             q == RDiv(RSub(EvalPoint(m, moved, interp, extrap),
                            EvalPoint(m, pt, interp, extrap)), h[d])
         IN  RAdd(q, DiffSum(m, pt, h, interp, extrap, d - 1))

evaluate_derivative(m, arrs, dxi, n, interp, extrap, u) ==
    IF ~KnownMethods(interp, extrap)
    THEN [res |-> 1, values |-> [k \in 1..n |-> u.fill]]
    ELSE IF ~ValidGrid(m) THEN [res |-> u.res, values |-> [k \in 1..n |-> u.fill]]
    ELSE IF \E k \in 1..n : \E d \in 1..Len(dxi) : ReadBuf(dxi[d].flat, k, u) = R(0)
    THEN [res |-> 1, values |-> [k \in 1..n |-> u.fill]]
    ELSE [res |-> 0,
          values |-> [k \in 1..n |->
              DiffSum(m, PointAt(arrs, k, u), PointAt(dxi, k, u),
                      InterpNames[interp], ExtrapNames[extrap], Len(arrs))]]

(* NDT_eval: the lookup at one point. The value is written through the     *)
(* reference it is given only when the lookup succeeds.                    *)
NDT_eval(m, pt, interp, extrap, u) ==
    IF ~KnownMethods(interp, extrap)
    THEN [res |-> 1, wrote |-> FALSE, value |-> u.fill]
    ELSE IF ~ValidGrid(m) THEN [res |-> u.res, wrote |-> u.res = 0, value |-> u.fill]
    ELSE [res |-> 0, wrote |-> TRUE,
          value |-> EvalPoint(m, pt, InterpNames[interp], ExtrapNames[extrap])]

----------------------------------------------------------------------------
(* Mesh.__init__                                                           *)

RECURSIVE SortedNames(_, _)
SortedNames(axes, names) ==
    IF axes = <<>> THEN <<>>
    ELSE (IF Head(axes) \in names THEN <<Head(axes)>> ELSE <<>>)
         \o SortedNames(Tail(axes), names)

Min(a, b) == IF a < b THEN a ELSE b

(* pargs: the breakpoints given by position (named after AXES in order),   *)
(* kw: those given by keyword, data: the samples. The DataArray            *)
(* constructor refuses data whose shape is not the breakpoints' lengths.   *)
MeshInit(pargs, kw, data) ==
    LET np == Min(Len(pargs), Len(AXES))
        byPos == SubSeq(AXES, 1, np)
        byKw == SortedNames(AXES, (DOMAIN kw) \ Range(byPos))
        dims == byPos \o byKw
        coordOf(name) == IF name \in DOMAIN kw THEN kw[name]
                         ELSE pargs[IndexOf(AXES, name)]
        coords == [i \in 1..Len(dims) |-> coordOf(dims[i])]
        fits == /\ Len(data.shape) = Len(dims)
                /\ \A i \in 1..Len(dims) : data.shape[i] = Len(coords[i])
    IN  [ok |-> fits,
         mesh |-> IF fits THEN [dims |-> dims, coords |-> coords, data |-> data]
                  ELSE NoMesh]

Ndim(m) == Len(m.data.shape)

----------------------------------------------------------------------------
(* Mesh.interpolation and Mesh.derivate                                    *)

NoKw == [name \in {} |-> NoValue]

(* Variants of the arity assertion: every keyword counted, whether or not  *)
(* it names a dimension; and "not enough" read as a lower bound only.      *)
ArityOkAllKeywords(m, points, kwargs) ==
    Cardinality(DOMAIN kwargs) + Len(points) = Len(m.data.shape)

ArityOkAtLeast(m, points, kwargs) ==
    Cardinality({m.dims[i] : i \in 1..Len(m.dims)} \cap DOMAIN kwargs) + Len(points)
        >= Len(m.data.shape)

(* The arity assertion: keywords naming a dimension, plus positionals.     *)
ArityOk(m, points, kwargs) ==
    Cardinality(Range(m.dims) \cap DOMAIN kwargs) + Len(points) = Ndim(m)

(* Variant of the binding: points.pop() takes the last positional.         *)
RECURSIVE BindArgsFromEnd(_, _, _)
BindArgsFromEnd(dims, points, kwargs) ==
    IF dims = <<>> THEN [ok |-> TRUE, args |-> <<>>]
    ELSE IF Head(dims) \in DOMAIN kwargs THEN
        LET rest == BindArgsFromEnd(Tail(dims), points, kwargs)
        IN  [ok |-> rest.ok, args |-> <<kwargs[Head(dims)]>> \o rest.args]
    ELSE IF points = <<>> THEN [ok |-> FALSE, args |-> <<>>]
    ELSE LET rest == BindArgsFromEnd(Tail(dims), SubSeq(points, 1, Len(points) - 1), kwargs)
         IN  [ok |-> rest.ok, args |-> <<points[Len(points)]>> \o rest.args]

(* args = {_x: kwargs[_x] if _x in kwargs else points.pop(0) for _x in     *)
(* self.dims}: the bound arguments in dimension order; ok is FALSE when    *)
(* pop finds the list empty.                                               *)
RECURSIVE BindArgs(_, _, _)
BindArgs(dims, points, kwargs) ==
    IF dims = <<>> THEN [ok |-> TRUE, args |-> <<>>]
    ELSE IF Head(dims) \in DOMAIN kwargs THEN
        LET rest == BindArgs(Tail(dims), points, kwargs)
        IN  [ok |-> rest.ok, args |-> <<kwargs[Head(dims)]>> \o rest.args]
    ELSE IF points = <<>> THEN [ok |-> FALSE, args |-> <<>>]
    ELSE LET rest == BindArgs(Tail(dims), Tail(points), kwargs)
         IN  [ok |-> rest.ok, args |-> <<Head(points)>> \o rest.args]

(* len(a) if a has __len__, else 1.                                        *)
ArgLen(a) == IF IsScalar(a) THEN 1 ELSE a.shape[1]

ArgLens(args) == [i \in 1..Len(args) |-> ArgLen(args[i])]

(* Variant of the length assertion: any in place of all.                   *)
BroadcastOkAny(dims) ==
    \E i \in 1..Len(dims) : dims[i] = SeqMax(dims) \/ dims[i] = 1

(* assert all((dims == max(dims)) + (dims == 1))                           *)
BroadcastOk(dims) ==
    \A i \in 1..Len(dims) : dims[i] = SeqMax(dims) \/ dims[i] = 1

(* Variant of the conversion: the ones are not scaled by the scalar.       *)
AsArrayOnes(a, n) ==
    IF a.shape = <<>> THEN [shape |-> <<n>>, flat |-> [k \in 1..n |-> R(1)]]
    ELSE a

(* np.asarray(a) if a has __len__, else np.ones((max(dims),)) * a          *)
AsArray(a, n) ==
    IF IsScalar(a)
    THEN [shape |-> <<n>>, flat |-> [k \in 1..n |-> RMul(R(1), a.flat[1])]]
    ELSE a

AsArrays(args) ==
    [i \in 1..Len(args) |-> AsArray(args[i], SeqMax(ArgLens(args)))]

(* np.ones_like(a)                                                         *)
OnesLike(a) == [shape |-> a.shape, flat |-> [k \in 1..Len(a.flat) |-> R(1)]]

StepArrays(arrs) == [i \in 1..Len(arrs) |-> OnesLike(arrs[i])]

(* values[0] if len(values) == 1 else values                               *)
Unwrap(values) ==
    IF values.shape[1] = 1
    THEN [shape |-> Tail(values.shape),
          flat |-> SubSeq(values.flat, 1, Prod(Tail(values.shape)))]
    ELSE values

(* INTERP_METH[interp] and EXTRAP_METH[extrap] raise KeyError on any other *)
(* name.                                                                   *)
MethodsOk(interp, extrap) ==
    interp \in DOMAIN INTERP_METH /\ extrap \in DOMAIN EXTRAP_METH

Failed(e, evals) ==
    [status |-> "error", error |-> e, evals |-> evals,
     result |-> NoValue, made |-> NoMesh]

Returned(values, evals) ==
    [status |-> "ok", error |-> "none", evals |-> evals,
     result |-> values, made |-> NoMesh]

(* One entry of evals: the arguments a native routine was entered with.    *)
NativeCall(routine, arrs, dxi, n, interp, extrap) ==
    [routine |-> routine, points |-> arrs, steps |-> dxi, n |-> n,
     interp |-> interp, extrap |-> extrap]

InterpolationCall(m, points, kwargs, interp, extrap, u) ==
    IF ~ArityOk(m, points, kwargs) THEN Failed("arity", <<>>)
    ELSE
    LET bound == BindArgs(m.dims, points, kwargs) IN
    IF ~bound.ok THEN Failed("index", <<>>)
    ELSE IF ~BroadcastOk(ArgLens(bound.args)) THEN Failed("broadcast", <<>>)
    ELSE
    LET arrs == AsArrays(bound.args)
        shape == arrs[1].shape
        n == Prod(shape)
    IN
    IF ~MethodsOk(interp, extrap) THEN Failed("method", <<>>)
    ELSE
    LET ev == evaluate_interpolation(m, arrs, n, INTERP_METH[interp],
                                     EXTRAP_METH[extrap], u)
        entered == <<NativeCall("evaluate_interpolation", arrs, <<>>, n,
                                INTERP_METH[interp], EXTRAP_METH[extrap])>>
    IN  IF ev.res # 0 THEN Failed("native", entered)
        ELSE Returned(Unwrap([shape |-> shape, flat |-> ev.values]), entered)

DerivateCall(m, points, kwargs, interp, extrap, u) ==
    IF ~ArityOk(m, points, kwargs) THEN Failed("arity", <<>>)
    ELSE
    LET bound == BindArgs(m.dims, points, kwargs) IN
    IF ~bound.ok THEN Failed("index", <<>>)
    ELSE IF ~BroadcastOk(ArgLens(bound.args)) THEN Failed("broadcast", <<>>)
    ELSE
    LET arrs == AsArrays(bound.args)
        dxi == StepArrays(arrs)
        shape == arrs[1].shape
        n == Prod(shape)
    IN
    IF ~MethodsOk(interp, extrap) THEN Failed("method", <<>>)
    ELSE
    LET ev == evaluate_derivative(m, arrs, dxi, n, INTERP_METH[interp],
                                  EXTRAP_METH[extrap], u)
        entered == <<NativeCall("evaluate_derivative", arrs, dxi, n,
                                INTERP_METH[interp], EXTRAP_METH[extrap])>>
    IN  IF ev.res # 0 THEN Failed("native", entered)
        ELSE Returned(Unwrap([shape |-> shape, flat |-> ev.values]), entered)

----------------------------------------------------------------------------
(* Mesh.__call__: kwargs holds the coordinates given by keyword and, when  *)
(* the caller passes them, the method names under "interp" and "extrap".   *)

MethodKeys == {"interp", "extrap"}

(* kwargs after kwargs.pop(key, None) for each of the keys.                *)
Without(kwargs, keys) == [k \in (DOMAIN kwargs) \ keys |-> kwargs[k]]

(* The value a keyword-only parameter of interpolation takes: the one in   *)
(* kwargs, else the default of the signature.                              *)
Given(kwargs, key, default) == IF key \in DOMAIN kwargs THEN kwargs[key] ELSE default

(* self.options.<name>: the wrapper reads the entry of self._options.      *)
Option(opts, name) == opts[name]

(* Variant of __call__: the extrapolate option decides whatever the caller *)
(* passed as extrap.                                                       *)
CallExtrapolateFirst(m, opts, pargs, kwargs, u) ==
    IF Option(opts, "step")
    THEN InterpolationCall(m, pargs, Without(kwargs, MethodKeys), "hold", "hold", u)
    ELSE IF Option(opts, "extrapolate")
    THEN InterpolationCall(m, pargs, Without(kwargs, MethodKeys),
                           Given(kwargs, "interp", "linear"), "linear", u)
    ELSE InterpolationCall(m, pargs, Without(kwargs, MethodKeys),
                           Given(kwargs, "interp", "linear"),
                           Given(kwargs, "extrap", "hold"), u)

CallCall(m, opts, pargs, kwargs, u) ==
    IF Option(opts, "step")
    THEN InterpolationCall(m, pargs, Without(kwargs, MethodKeys), "hold", "hold", u)
    ELSE IF Option(opts, "extrapolate") /\ "extrap" \notin DOMAIN kwargs
    THEN InterpolationCall(m, pargs, Without(kwargs, MethodKeys),
                           Given(kwargs, "interp", "linear"), "linear", u)
    ELSE InterpolationCall(m, pargs, Without(kwargs, MethodKeys),
                           Given(kwargs, "interp", "linear"),
                           Given(kwargs, "extrap", "hold"), u)

----------------------------------------------------------------------------
(* Mesh.resample                                                           *)

(* For each dimension: the keyword of its name, else the next positional,  *)
(* else (IndexError) the mesh's own breakpoints.                           *)
RECURSIVE ResampleArgs(_, _, _, _)
ResampleArgs(dims, coords, points, kwargs) ==
    IF dims = <<>> THEN <<>>
    ELSE IF Head(dims) \in DOMAIN kwargs THEN
        <<kwargs[Head(dims)]>> \o ResampleArgs(Tail(dims), Tail(coords), points, kwargs)
    ELSE IF points # <<>> THEN
        <<Head(points)>> \o ResampleArgs(Tail(dims), Tail(coords), Tail(points), kwargs)
    ELSE <<Vec(Head(coords))>> \o ResampleArgs(Tail(dims), Tail(coords), points, kwargs)

(* np.meshgrid with indexing='ij' over the per-dimension arrays           *)
MeshGrid(args) ==
    LET shape == [d \in 1..Len(args) |-> Len(args[d].flat)]
    IN  [d \in 1..Len(args) |->
            [shape |-> shape,
             flat |-> [k \in 1..Prod(shape) |-> args[d].flat[Unravel(shape, k)[d]]]]]

ResampleCall(m, points, kwargs, interp, extrap, u) ==
    LET args == ResampleArgs(m.dims, m.coords, points, kwargs)
        mg == MeshGrid(args)
        nv == InterpolationCall(m, mg, NoKw, interp, extrap, u)
        byName == [name \in Range(m.dims) |-> args[IndexOf(m.dims, name)].flat]
        new == MeshInit(<<>>, byName, nv.result)
    IN  IF nv.status = "error" THEN nv
        ELSE IF ~new.ok THEN Failed("shape", nv.evals)
        ELSE [status |-> "ok", error |-> "none", evals |-> nv.evals,
              result |-> NoValue, made |-> new.mesh]

----------------------------------------------------------------------------
(* Mesh.interpolation_NDT_eval: the same checks and conversions, then a    *)
(* Python loop that looks the points up one at a time.                     *)

(* No loop in progress.                                                    *)
NoWork == [arrs |-> <<>>, shape |-> <<>>, pending |-> {}, values |-> <<>>,
           value |-> R(0), evals |-> <<>>]

Running ==
    [status |-> "running", error |-> "none", evals |-> <<>>,
     result |-> NoValue, made |-> NoMesh]

(* Up to the loop: values = np.empty(args[0].shape) holds whatever the     *)
(* allocator left there (u.fill), value = c_double() holds 0.0.            *)
NDTEvalBegin(m, points, kwargs, u) ==
    IF ~ArityOk(m, points, kwargs) THEN [ok |-> FALSE, out |-> Failed("arity", <<>>), work |-> NoWork]
    ELSE
    LET bound == BindArgs(m.dims, points, kwargs) IN
    IF ~bound.ok THEN [ok |-> FALSE, out |-> Failed("index", <<>>), work |-> NoWork]
    ELSE IF ~BroadcastOk(ArgLens(bound.args))
    THEN [ok |-> FALSE, out |-> Failed("broadcast", <<>>), work |-> NoWork]
    ELSE
    LET arrs == AsArrays(bound.args)
        shape == arrs[1].shape
    IN  [ok |-> TRUE, out |-> Running,
         work |-> [arrs |-> arrs, shape |-> shape, pending |-> 1..Prod(shape),
                   values |-> [k \in 1..Prod(shape) |-> u.fill],
                   value |-> R(0), evals |-> <<>>]]

(* params: the coordinates of the point of index k.                        *)
Params(w, k) == [d \in 1..Len(w.arrs) |-> w.arrs[d].flat[k]]

(* What value holds after NDT_eval answered ev.                            *)
ValueAfter(ev, old) == IF ev.wrote THEN ev.value ELSE old

(* values[index] = value.value, then the next turn, or the return when no  *)
(* index is pending.                                                       *)
NDTEvalStore(w, k, value, entered) ==
    IF w.pending \ {k} = {}
    THEN [done |-> TRUE,
          out |-> Returned(Unwrap([shape |-> w.shape,
                                   flat |-> [w.values EXCEPT ![k] = value]]),
                           Append(w.evals, entered)),
          work |-> NoWork]
    ELSE [done |-> FALSE, out |-> Running,
          work |-> [w EXCEPT !.pending = @ \ {k}, !.values[k] = value,
                             !.value = value, !.evals = Append(@, entered)]]

(* One turn of the loop, for index k: params[i] = point[index] raises      *)
(* IndexError on an array shorter than k; the method names are looked up   *)
(* next; the answer of NDT_eval is never looked at, and values[index]      *)
(* takes whatever value holds.                                             *)
NDTEvalStep(m, w, k, interp, extrap, u) ==
    IF \E d \in 1..Len(w.arrs) : k > Len(w.arrs[d].flat)
    THEN [done |-> TRUE, out |-> Failed("index", w.evals), work |-> NoWork]
    ELSE IF ~MethodsOk(interp, extrap)
    THEN [done |-> TRUE, out |-> Failed("method", w.evals), work |-> NoWork]
    ELSE NDTEvalStore(w, k,
             ValueAfter(NDT_eval(m, Params(w, k), INTERP_METH[interp],
                                 EXTRAP_METH[extrap], u), w.value),
             NativeCall("NDT_eval", Params(w, k), <<>>, 1,
                        INTERP_METH[interp], EXTRAP_METH[extrap]))

----------------------------------------------------------------------------
(* Whose buffers the table returned by resample is made of. A buffer or a  *)
(* coordinate object is named by a pair: <<"self", 0>> is the data of the  *)
(* table resample is called on, <<"self", d>> its d-th coordinate.         *)

SelfData == <<"self", 0>>
SelfCoord(d) == <<"self", d>>

(* args[d]: the caller's array, or self.coords[d] itself when the caller   *)
(* gave none for the dimension.                                            *)
RECURSIVE ResampleCoordRefs(_, _, _, _)
ResampleCoordRefs(dims, d, points, kwargs) ==
    IF dims = <<>> THEN <<>>
    ELSE IF Head(dims) \in DOMAIN kwargs THEN
        <<<<"kwargs", d>>>> \o ResampleCoordRefs(Tail(dims), d + 1, points, kwargs)
    ELSE IF points # <<>> THEN
        <<<<"points", d>>>> \o ResampleCoordRefs(Tail(dims), d + 1, Tail(points), kwargs)
    ELSE <<SelfCoord(d)>> \o ResampleCoordRefs(Tail(dims), d + 1, points, kwargs)

(* Variant: the values are written into the data of the table itself.      *)
ResampleRefsInPlace(m, points, kwargs) ==
    [data |-> SelfData, coords |-> ResampleCoordRefs(m.dims, 1, points, kwargs)]

(* Mesh(nv, **args): nv is the array interpolation allocated with np.empty *)
(* (or its first row), the coordinates are args.                           *)
ResampleRefs(m, points, kwargs) ==
    [data |-> <<"values", 0>>, coords |-> ResampleCoordRefs(m.dims, 1, points, kwargs)]

----------------------------------------------------------------------------
(* State: mesh is the Mesh object, last the call that has just returned    *)
(* (what it was given, how it ended, the native calls it entered, what it  *)
(* returned), pc the caller's position, options the object's _options,     *)
(* work the loop of interpolation_NDT_eval in progress, kept the table     *)
(* returned by resample that the caller holds on to.                       *)

(* self._options as __init__ sets it.                                      *)
DefaultOptions == [extrapolate |-> TRUE, step |-> FALSE, deepcopy |-> FALSE]

(* The table the caller keeps, with the buffer its data lies in, the       *)
(* objects its coordinates are, and the number of times the caller has     *)
(* modified it.                                                            *)
NoKept == [grid |-> NoMesh, data |-> <<"none", 0>>, coords |-> <<>>, writes |-> 0]

NoCall ==
    [op |-> "none", points |-> <<>>, kwargs |-> NoKw, interp |-> "", extrap |-> "",
     status |-> "none", error |-> "none", evals |-> <<>>,
     result |-> NoValue, made |-> NoMesh]

Record(op, points, kwargs, interp, extrap, r) ==
    [op |-> op, points |-> points, kwargs |-> kwargs, interp |-> interp,
     extrap |-> extrap, status |-> r.status, error |-> r.error, evals |-> r.evals,
     result |-> r.result, made |-> r.made]

Init ==
    /\ mesh = NoMesh
    /\ last = NoCall
    /\ pc = "start"
    /\ options = DefaultOptions
    /\ work = NoWork
    /\ kept = NoKept

Construct(pargs, data) ==
    /\ pc = "start"
    /\ LET new == MeshInit(pargs, NoKw, data) IN
       /\ mesh' = new.mesh
       /\ pc' = IF new.ok THEN "idle" ELSE "start"
       /\ last' = IF new.ok THEN NoCall
                  ELSE Record("__init__", <<>>, NoKw, "", "", Failed("shape", <<>>))
    /\ options' = DefaultOptions
    /\ UNCHANGED <<work, kept>>

Interpolation(points, kwargs, interp, extrap, u) ==
    /\ pc = "idle"
    /\ last' = Record("interpolation", points, kwargs, interp, extrap,
                      InterpolationCall(mesh, points, kwargs, interp, extrap, u))
    /\ pc' = "returned"
    /\ UNCHANGED <<mesh, options, work, kept>>

Derivate(points, kwargs, interp, extrap, u) ==
    /\ pc = "idle"
    /\ last' = Record("derivate", points, kwargs, interp, extrap,
                      DerivateCall(mesh, points, kwargs, interp, extrap, u))
    /\ pc' = "returned"
    /\ UNCHANGED <<mesh, options, work, kept>>

Resample(points, kwargs, interp, extrap, u) ==
    /\ pc = "idle"
    /\ last' = Record("resample", points, kwargs, interp, extrap,
                      ResampleCall(mesh, points, kwargs, interp, extrap, u))
    /\ pc' = "returned"
    /\ UNCHANGED <<mesh, options, work, kept>>

(* The caller takes the returned value (or the exception) and goes on.     *)
Return ==
    /\ pc = "returned"
    /\ pc' = "idle"
    /\ last' = NoCall
    /\ UNCHANGED <<mesh, options, work, kept>>

(* The table is called. The method names the caller passed are among      *)
(* kwargs.                                                                 *)
Call(pargs, kwargs, u) ==
    /\ pc = "idle"
    /\ last' = Record("__call__", pargs, kwargs, "", "",
                      CallCall(mesh, options, pargs, kwargs, u))
    /\ pc' = "returned"
    /\ UNCHANGED <<mesh, options, work, kept>>

(* The caller sets an entry of the options.                                *)
SetOption(name, b) ==
    /\ pc = "idle"
    /\ options' = [options EXCEPT ![name] = b]
    /\ UNCHANGED <<mesh, last, pc, work, kept>>

(* interpolation_NDT_eval is entered and reaches its loop, or fails on one *)
(* of the checks before it.                                                *)
InterpolationNDTEval(points, kwargs, interp, extrap, u) ==
    /\ pc = "idle"
    /\ LET b == NDTEvalBegin(mesh, points, kwargs, u) IN
       /\ work' = b.work
       /\ pc' = IF b.ok THEN "looping" ELSE "returned"
       /\ last' = Record("interpolation_NDT_eval", points, kwargs, interp, extrap, b.out)
    /\ UNCHANGED <<mesh, options, kept>>

(* The loop looks up the point of index k. np.ndindex hands the indices    *)
(* out in ascending order; the turn is written for any pending index, so   *)
(* that the same points can be taken in another order or shared out        *)
(* between workers.                                                        *)
NDTEvalLoop(k, u) ==
    /\ pc = "looping"
    /\ k \in work.pending
    /\ \E s \in {NDTEvalStep(mesh, work, k, last.interp, last.extrap, u)} :
       /\ work' = s.work
       /\ pc' = IF s.done THEN "returned" ELSE "looping"
       /\ last' = IF s.done
                  THEN Record(last.op, last.points, last.kwargs, last.interp,
                              last.extrap, s.out)
                  ELSE last
    /\ UNCHANGED <<mesh, options, kept>>

(* The caller keeps the table resample returned.                           *)
Keep ==
    /\ pc = "returned"
    /\ last.op = "resample"
    /\ last.status = "ok"
    /\ LET refs == ResampleRefs(mesh, last.points, last.kwargs) IN
       kept' = [grid |-> last.made, data |-> refs.data, coords |-> refs.coords,
                writes |-> 0]
    /\ pc' = "idle"
    /\ last' = NoCall
    /\ UNCHANGED <<mesh, options, work>>

(* The caller assigns v to the k-th sample of the kept table, in place:    *)
(* every table whose data lies in the same buffer shows it.                *)
WriteData(k, v) ==
    /\ pc = "idle"
    /\ kept.grid # NoMesh
    /\ kept.writes < MaxWrites
    /\ k \in 1..Len(kept.grid.data.flat)
    /\ kept' = [kept EXCEPT !.grid.data.flat[k] = v, !.writes = @ + 1]
    /\ mesh' = IF kept.data = SelfData /\ k \in 1..Len(mesh.data.flat)
               THEN [mesh EXCEPT !.data.flat[k] = v]
               ELSE mesh
    /\ UNCHANGED <<last, pc, options, work>>

(* The caller gives the kept table new breakpoints bp for its d-th         *)
(* dimension: the table takes another coordinate object.                   *)
ReplaceCoord(d, bp) ==
    /\ pc = "idle"
    /\ kept.grid # NoMesh
    /\ kept.writes < MaxWrites
    /\ d \in 1..Len(kept.grid.coords)
    /\ Len(bp) = Len(kept.grid.coords[d])
    /\ kept' = [kept EXCEPT !.grid.coords[d] = bp, !.coords[d] = <<"caller", d>>,
                            !.writes = @ + 1]
    /\ UNCHANGED <<mesh, last, pc, options, work>>

(* The caller assigns to an entry of the d-th coordinate of the kept       *)
(* table: a DataArray holds the coordinates of its dimensions as indexes,  *)
(* which take no assignment, and raises TypeError.                         *)
WriteCoord(d) ==
    /\ pc = "idle"
    /\ kept.grid # NoMesh
    /\ d \in 1..Len(kept.grid.coords)
    /\ last' = Record("coords.__setitem__", <<>>, NoKw, "", "", Failed("immutable", <<>>))
    /\ pc' = "returned"
    /\ UNCHANGED <<mesh, options, work, kept>>

----------------------------------------------------------------------------
(* Inputs                                                                  *)

(* Sequences over S of length lo..hi.                                      *)
SeqsOf(S, lo, hi) == UNION {[1..n -> S] : n \in lo..hi}

(* What a read past the end of a buffer may find, and what a native        *)
(* routine may answer on a table it is not defined on. A call meets        *)
(* neither on a table with strictly increasing breakpoints when none of    *)
(* its arguments is an array of length 1 (the only arrays that can be      *)
(* shorter than the number of points), and then one choice stands for all. *)
Defined == [fill |-> R(0), res |-> 0]

Undefined == {Defined, [fill |-> R(5), res |-> 0], [fill |-> R(0), res |-> 1]}

UndefinedFor(m, points, kwargs) ==
    IF \/ ~ValidGrid(m)
       \/ \E i \in 1..Len(points) : ~IsScalar(points[i]) /\ ArgLen(points[i]) = 1
       \/ \E k \in DOMAIN kwargs : ~IsScalar(kwargs[k]) /\ ArgLen(kwargs[k]) = 1
    THEN Undefined
    ELSE {Defined}

(* <<0, 1/2, 1, ...>>                                                      *)
Ramp(n) == Vec([k \in 1..n |-> Norm(k - 1, 2)])

QueryArgs == {Scalar(Half)} \cup {Ramp(n) : n \in 1..MaxLen}

(* "spline" and "none" are names of neither enumeration.                   *)
MethodPairs ==
    {<<"linear", "hold">>, <<"hold", "linear">>, <<"spline", "hold">>, <<"linear", "none">>}

AllMethodPairs == (DOMAIN INTERP_METH) \X (DOMAIN EXTRAP_METH)

KwNames == Range(SubSeq(AXES, 1, MaxNdim + 1))

Ints(s) == [i \in 1..Len(s) |-> R(s[i])]

(* The tables the calls are made on: for each n the n-dimensional table    *)
(* over breakpoints <<0, 1>> holding 0, 1, 2, ... in row-major order (for  *)
(* n = 2: [[0, 1], [2, 3]]), and the samples [0, 1, 4, 9] of the square on *)
(* breakpoints [0, 1, 2, 3].                                               *)
UnitMesh(n) ==
    [dims |-> SubSeq(AXES, 1, n),
     coords |-> [d \in 1..n |-> Ints(<<0, 1>>)],
     data |-> [shape |-> [d \in 1..n |-> 2],
               flat |-> [k \in 1..Prod([d \in 1..n |-> 2]) |-> R(k - 1)]]]

SquareMesh ==
    [dims |-> <<"x">>, coords |-> <<Ints(<<0, 1, 2, 3>>)>>,
     data |-> Vec(Ints(<<0, 1, 4, 9>>))]

WaveMesh ==
    [dims |-> <<"x">>, coords |-> <<Ints(<<0, 1, 2, 3, 4>>)>>,
     data |-> Vec(Ints(<<0, 2, 1, 3, 0>>))]

SampleMeshes == {UnitMesh(n) : n \in 1..MaxNdim} \cup {SquareMesh}

----------------------------------------------------------------------------
(* SpecCalls: interpolation and derivate called, with up to MaxNdim + 1    *)
(* arguments by position or by keyword, on a constructed table.            *)

InitCalls ==
    /\ mesh \in SampleMeshes
    /\ last = NoCall
    /\ pc = "idle"
    /\ options = DefaultOptions
    /\ work = NoWork
    /\ kept = NoKept

(* The caller's position is looked at before its arguments are drawn.      *)
NextCalls ==
    \/ /\ pc = "idle"
       /\ \E K \in SUBSET KwNames : \E kwargs \in [K -> QueryArgs] :
          \E points \in SeqsOf(QueryArgs, 0, MaxNdim + 1 - Cardinality(K)) :
          \E mp \in MethodPairs : \E u \in UndefinedFor(mesh, points, kwargs) :
             \/ Interpolation(points, kwargs, mp[1], mp[2], u)
             \/ Derivate(points, kwargs, mp[1], mp[2], u)
    \/ Return

SpecCalls == InitCalls /\ [][NextCalls]_vars

----------------------------------------------------------------------------
(* Spec: a table is constructed from any breakpoints and data, then        *)
(* resampled, interpolated and derived.                                    *)

BpChoices == SeqsOf(0..MaxCoord, 1, MaxBp)

Shapes == SeqsOf(1..MaxBp, 1, MaxNdim)

DataChoices ==
    UNION {{[shape |-> sh, flat |-> Ints(f)] : f \in [1..Prod(sh) -> 0..MaxVal]} :
              sh \in Shapes}

NewCoords == {Vec(<<Half>>), Vec(Ints(<<0, 1>>)), Ramp(3)}

ResampleMethods ==
    {<<"linear", "hold">>, <<"hold", "linear">>, <<"nearest", "hold">>,
     <<"steffen", "linear">>}

DimNames == Range(SubSeq(AXES, 1, MaxNdim))

Next ==
    \/ /\ pc = "start"
       /\ \E pargs \in SeqsOf(BpChoices, 1, MaxNdim) : \E data \in DataChoices :
             Construct([i \in 1..Len(pargs) |-> Ints(pargs[i])], data)
    \/ /\ pc = "idle"
       /\ \E K \in SUBSET DimNames : \E kwargs \in [K -> NewCoords] :
          \E points \in SeqsOf(NewCoords, 0, MaxNdim - Cardinality(K)) :
          \E mp \in ResampleMethods : \E u \in UndefinedFor(mesh, points, kwargs) :
             Resample(points, kwargs, mp[1], mp[2], u)
    \/ /\ pc = "idle"
       /\ \E points \in SeqsOf({Scalar(Half), Ramp(2)}, 1, MaxNdim) :
          \E u \in UndefinedFor(mesh, points, NoKw) :
             \/ Interpolation(points, NoKw, "linear", "hold", u)
             \/ Derivate(points, NoKw, "linear", "hold", u)
    \/ Return

Spec == Init /\ [][Next]_vars

----------------------------------------------------------------------------
(* SpecNumeric: one-dimensional tables over strictly increasing            *)
(* breakpoints, evaluated at points inside, on and outside their range     *)
(* with every pair of methods.                                             *)

Knots ==
    {bp \in SeqsOf(0..MaxKnotCoord, 1, MaxKnots) :
        \A i \in 1..(Len(bp) - 1) : bp[i] < bp[i + 1]}

Mesh1(bp, values) == [dims |-> <<"x">>, coords |-> <<Ints(bp)>>, data |-> Vec(Ints(values))]

SampledMeshes ==
    UNION {{Mesh1(bp, f) : f \in [1..Len(bp) -> 0..MaxSample]} : bp \in Knots}

(* The tables of f(x) = a*x + b.                                           *)
LinearMesh(bp, a, b) == Mesh1(bp, [i \in 1..Len(bp) |-> a * bp[i] + b])

LinearMeshes ==
    {LinearMesh(bp, a, b) : bp \in Knots, a \in (-MaxSlope)..MaxSlope, b \in 0..1}

NumericMeshes == SampledMeshes \cup LinearMeshes \cup {SquareMesh, WaveMesh}

(* -1, -1/2, 0, ..., MaxKnotCoord + 2                                      *)
QueryPoints == {Norm(k, 2) : k \in (-2)..(2 * MaxKnotCoord + 4)}

InitNumeric ==
    /\ mesh \in NumericMeshes
    /\ last = NoCall
    /\ pc = "idle"
    /\ options = DefaultOptions
    /\ work = NoWork
    /\ kept = NoKept

NextNumeric ==
    \/ /\ pc = "idle"
       /\ \E x \in QueryPoints : \E mp \in AllMethodPairs :
             \/ Interpolation(<<Scalar(x)>>, NoKw, mp[1], mp[2], Defined)
             \/ Interpolation(<<>>, [name \in {"x"} |-> Vec(<<x>>)], mp[1], mp[2], Defined)
    \/ Return

SpecNumeric == InitNumeric /\ [][NextNumeric]_vars

----------------------------------------------------------------------------
(* SpecEval: interpolation_NDT_eval called with the arguments of SpecCalls *)
(* and its loop run, the points taken in any order.                        *)

(* What np.empty may hand out.                                             *)
Allocated == {u \in Undefined : u.res = 0}

UndefinedOn(m) == IF ValidGrid(m) THEN {Defined} ELSE Undefined

InitEval ==
    /\ mesh \in SampleMeshes
    /\ last = NoCall
    /\ pc = "idle"
    /\ options = DefaultOptions
    /\ work = NoWork
    /\ kept = NoKept

NextEval ==
    \/ /\ pc = "idle"
       /\ \E K \in SUBSET KwNames : \E kwargs \in [K -> QueryArgs] :
          \E points \in SeqsOf(QueryArgs, 0, MaxNdim + 1 - Cardinality(K)) :
          \E mp \in MethodPairs : \E u \in Allocated :
             InterpolationNDTEval(points, kwargs, mp[1], mp[2], u)
    \/ /\ pc = "looping"
       /\ \E k \in work.pending : \E u \in UndefinedOn(mesh) : NDTEvalLoop(k, u)
    \/ Return

SpecEval == InitEval /\ [][NextEval]_vars

----------------------------------------------------------------------------
(* SpecOptions: the table called under every setting of the options, with  *)
(* and without method names, at points inside and outside its range.       *)

(* 3/2 lies inside the range of both tables, 5 beyond it.                  *)
CallArgs == {Scalar(Norm(3, 2)), Scalar(R(5)), Vec(<<Norm(3, 2), R(5)>>)}

(* The names passed as interp and as extrap; "spline" and "none" are names *)
(* of neither enumeration.                                                 *)
InterpPassed == {"hold", "linear", "akima", "spline"}
ExtrapPassed == {"hold", "linear", "none"}

MethodKwargs ==
    UNION {[K -> InterpPassed \cup ExtrapPassed] : K \in SUBSET MethodKeys}

PassedKwargs ==
    {mk \in MethodKwargs :
        /\ "interp" \in DOMAIN mk => mk["interp"] \in InterpPassed
        /\ "extrap" \in DOMAIN mk => mk["extrap"] \in ExtrapPassed}

(* Two sets of keywords in one dictionary.                                 *)
Merge(f, g) == [k \in (DOMAIN f) \cup (DOMAIN g) |-> IF k \in DOMAIN f THEN f[k] ELSE g[k]]

OptionNames == DOMAIN DefaultOptions

InitOptions ==
    /\ mesh \in {SquareMesh, UnitMesh(2)}
    /\ last = NoCall
    /\ pc = "idle"
    /\ options = DefaultOptions
    /\ work = NoWork
    /\ kept = NoKept

NextOptions ==
    \/ /\ pc = "idle"
       /\ \E name \in OptionNames : \E b \in BOOLEAN : SetOption(name, b)
    \/ /\ pc = "idle"
       /\ \E K \in SUBSET DimNames : \E kw \in [K -> CallArgs] :
          \E pargs \in SeqsOf(CallArgs, 0, MaxNdim - Cardinality(K)) :
          \E mk \in PassedKwargs :
             Call(pargs, Merge(kw, mk), Defined)
    \/ Return

SpecOptions == InitOptions /\ [][NextOptions]_vars

----------------------------------------------------------------------------
(* SpecFrame: every method called on a table, with arguments that are      *)
(* accepted and arguments that are refused; the caller keeps the tables    *)
(* resample returns (resampled along the first dimension, or along none)   *)
(* and modifies their first samples and their breakpoints.                 *)

FrameArgs == {Scalar(Half), Ramp(2)}

(* "spline" is no method.                                                  *)
FrameMethods == {<<"linear", "hold">>, <<"spline", "hold">>}

(* A first array of length 1 makes resample fail.                          *)
FrameCoords == {Vec(<<Half>>), Ramp(3)}

(* The breakpoints of bp moved up by one.                                  *)
Shifted(bp) == [i \in 1..Len(bp) |-> RAdd(bp[i], R(1))]

InitFrame ==
    /\ mesh \in {UnitMesh(n) : n \in 1..MaxNdim}
    /\ last = NoCall
    /\ pc = "idle"
    /\ options = DefaultOptions
    /\ work = NoWork
    /\ kept = NoKept

NextFrame ==
    \/ /\ pc = "idle"
       /\ \E points \in SeqsOf(FrameArgs, 1, MaxNdim) : \E mp \in FrameMethods :
             \/ Call(points, [key \in {"interp"} |-> mp[1]], Defined)
             \/ Interpolation(points, NoKw, mp[1], mp[2], Defined)
             \/ Derivate(points, NoKw, mp[1], mp[2], Defined)
             \/ InterpolationNDTEval(points, NoKw, mp[1], mp[2], Defined)
    \/ /\ pc = "looping"
       /\ \E k \in work.pending : NDTEvalLoop(k, Defined)
    \/ /\ pc = "idle"
       /\ \E points \in SeqsOf(FrameCoords, 0, 1) : \E mp \in FrameMethods :
             Resample(points, NoKw, mp[1], mp[2], Defined)
    \/ Keep
    \/ /\ pc = "idle"
       /\ \E k \in 1..MaxWrites : WriteData(k, R(7))
    \/ /\ pc = "idle"
       /\ \E d \in 1..MaxNdim :
             \/ d \in 1..Len(kept.grid.coords) /\ ReplaceCoord(d, Shifted(kept.grid.coords[d]))
             \/ WriteCoord(d)
    \/ Return

SpecFrame == InitFrame /\ [][NextFrame]_vars

----------------------------------------------------------------------------
(* SpecBind: interpolation and derivate called on tables of up to          *)
(* MaxNdim + 1 dimensions with scalars and arrays of one length, given by  *)
(* position, by the name of a dimension, or by another name.               *)

BindArgChoices == {Scalar(R(0)), Scalar(Half), Ramp(2)}

BindKwNames == Range(SubSeq(AXES, 1, MaxNdim + 2))

InitBind ==
    /\ mesh \in {UnitMesh(n) : n \in 1..(MaxNdim + 1)}
    /\ last = NoCall
    /\ pc = "idle"
    /\ options = DefaultOptions
    /\ work = NoWork
    /\ kept = NoKept

NextBind ==
    \/ /\ pc = "idle"
       /\ \E K \in SUBSET BindKwNames : \E kwargs \in [K -> BindArgChoices] :
          \E points \in SeqsOf(BindArgChoices, 0, MaxNdim + 2 - Cardinality(K)) :
             \/ Interpolation(points, kwargs, "linear", "hold", Defined)
             \/ Derivate(points, kwargs, "linear", "hold", Defined)
    \/ Return

SpecBind == InitBind /\ [][NextBind]_vars

----------------------------------------------------------------------------
(* Vocabulary of the properties                                            *)

IsQuery == last.op \in {"interpolation", "derivate"}

DimSet == {mesh.dims[i] : i \in 1..Len(mesh.dims)}

(* Arguments supplied in all, and those the arity assertion counts.        *)
Supplied == Len(last.points) + Cardinality(DOMAIN last.kwargs)
Counted == Len(last.points) + Cardinality({k \in DOMAIN last.kwargs : k \in DimSet})

LenOf(a) == IF a.shape = <<>> THEN 1 ELSE a.shape[1]

(* The argument of the d-th dimension of a call that supplies one for      *)
(* each: its keyword, else the positional whose rank is the number of      *)
(* dimensions up to d that have no keyword.                                *)
ArgOfDim(d) ==
    IF mesh.dims[d] \in DOMAIN last.kwargs THEN last.kwargs[mesh.dims[d]]
    ELSE last.points[Cardinality({e \in 1..d : mesh.dims[e] \notin DOMAIN last.kwargs})]

QueryLens == [d \in 1..Len(mesh.dims) |-> LenOf(ArgOfDim(d))]

(* N: the largest length.                                                  *)
CommonLen == CHOOSE n \in Range(QueryLens) : \A l \in Range(QueryLens) : l <= n

LengthMismatch == \E d \in 1..Len(mesh.dims) : QueryLens[d] \notin {1, CommonLen}

NothingEvaluated ==
    /\ last.status = "error"
    /\ last.evals = <<>>
    /\ last.result = NoValue

(* C1: a call of interpolation or derivate that gives each dimension an    *)
(* argument, one of them of a length that is neither 1 nor the largest     *)
(* length N, fails on the length assertion, before any native routine is   *)
(* entered.                                                                *)
C1_LengthMismatchFails ==
    (IsQuery /\ Counted = Len(mesh.dims) /\ LengthMismatch)
        => (last.error = "broadcast" /\ NothingEvaluated)

C1_Witness ==
    /\ IsQuery /\ Counted = Len(mesh.dims)
    /\ \E d, e \in 1..Len(mesh.dims) : QueryLens[d] = 2 /\ QueryLens[e] = 3
    /\ last.error = "broadcast"

(* C2: after an accepted call of interpolation all coordinate arrays       *)
(* handed to the native routine have the largest argument length N, and    *)
(* the result has N values.                                                *)
C2_AllBroadcastToN ==
    (last.op = "interpolation" /\ last.status = "ok")
        => /\ \A d \in 1..Len(mesh.dims) :
                Len(last.evals[1].points[d].flat) = CommonLen
           /\ Prod(last.result.shape) = CommonLen

(* C3 as stated: a call that supplies, by position and by keyword, a       *)
(* number of arguments other than ndim fails on the arity assertion and    *)
(* returns no values.                                                      *)
C3_SuppliedCountChecked ==
    (IsQuery /\ Supplied # Len(mesh.dims))
        => (last.error = "arity" /\ NothingEvaluated)

(* C3 amended: the arity assertion counts the positional arguments and the *)
(* keywords that name a dimension; a call fails on it exactly when that    *)
(* count is not ndim, and then returns no values. Other keywords are       *)
(* neither counted nor refused.                                            *)
C3_CountedArityChecked ==
    IsQuery
        => /\ (Counted # Len(mesh.dims)) <=> (last.error = "arity")
           /\ (last.error = "arity") => NothingEvaluated

C3_Witness ==
    /\ IsQuery
    /\ (DOMAIN last.kwargs) \ DimSet # {}
    /\ Supplied = Len(mesh.dims)
    /\ last.error = "arity"

(* A call that breaks the caller's contract: the arity assertion's count   *)
(* is not ndim, or the lengths are incompatible, or a method name is in    *)
(* neither enumeration.                                                    *)
BreaksContract ==
    \/ Counted # Len(mesh.dims)
    \/ LengthMismatch
    \/ last.interp \notin Range(InterpNames)
    \/ last.extrap \notin Range(ExtrapNames)

C10_UnitStepForEveryPoint ==
    (last.op = "derivate" /\ last.evals # <<>>)
        => \A d \in 1..Len(mesh.dims) :
              /\ Len(last.evals[1].steps[d].flat) = CommonLen
              /\ \A k \in 1..last.evals[1].n :
                    /\ k <= Len(last.evals[1].steps[d].flat)
                    /\ last.evals[1].steps[d].flat[k] = R(1)

----------------------------------------------------------------------------
(* Properties of construction and of resample (Spec)                       *)

(* C4: a grid that exists has strictly increasing breakpoints in every     *)
(* dimension: construction refuses any other, so none reaches              *)
(* interpolation, derivate or resample.                                    *)
C4_OnlyIncreasingGridsExist ==
    /\ mesh # NoMesh => ValidGrid(mesh)
    /\ last.op \in {"interpolation", "derivate", "resample"} => ValidGrid(mesh)

(* The coordinates resample evaluates on: for each dimension its keyword,  *)
(* else the positional of its rank among the dimensions without keyword,   *)
(* else the grid's own breakpoints.                                        *)
NewCoordOf(d) ==
    LET rank == Cardinality({e \in 1..d : mesh.dims[e] \notin DOMAIN last.kwargs})
    IN  IF mesh.dims[d] \in DOMAIN last.kwargs THEN last.kwargs[mesh.dims[d]].flat
        ELSE IF rank <= Len(last.points) THEN last.points[rank].flat
        ELSE mesh.coords[d]

ResampleOfValidGrid ==
    /\ last.op = "resample"
    /\ ValidGrid(mesh)
    /\ last.interp \in Range(InterpNames)
    /\ last.extrap \in Range(ExtrapNames)

(* C5: resample on the grid's own breakpoints in every dimension, given    *)
(* or left out, returns the grid again: same dimensions, breakpoints,      *)
(* shape and data.                                                         *)
C5_ResampleRoundTrip ==
    (ResampleOfValidGrid /\ \A d \in 1..Len(mesh.dims) : NewCoordOf(d) = mesh.coords[d])
        => (last.status = "ok" /\ last.made = mesh)

(* C6: resample returns a grid of the same dimensions whose breakpoints    *)
(* are the coordinates given (or the grid's own) and whose data holds, at  *)
(* every multi-index, the evaluation at that point of their cartesian      *)
(* product; coordinate arrays of any length from 1.                        *)
C6_ResampleOnCartesianProduct ==
    ResampleOfValidGrid
        => LET n == Len(mesh.dims)
               shape == [d \in 1..n |-> Len(NewCoordOf(d))]
           IN  /\ last.status = "ok"
               /\ last.made.dims = mesh.dims
               /\ \A d \in 1..n : last.made.coords[d] = NewCoordOf(d)
               /\ last.made.data.shape = shape
               /\ \A k \in 1..Prod(shape) :
                     last.made.data.flat[k] =
                         EvalPoint(mesh,
                                   [d \in 1..n |-> NewCoordOf(d)[Unravel(shape, k)[d]]],
                                   last.interp, last.extrap)

(* The same two statements for coordinates whose first array has at least  *)
(* two elements.                                                           *)
ResampleFirstLong == ResampleOfValidGrid /\ Len(NewCoordOf(1)) >= 2

ResampleRoundTripFirstLong ==
    (ResampleFirstLong /\ \A d \in 1..Len(mesh.dims) : NewCoordOf(d) = mesh.coords[d])
        => (last.status = "ok" /\ last.made = mesh)

ResampleOnProductFirstLong ==
    ResampleFirstLong => C6_ResampleOnCartesianProduct

----------------------------------------------------------------------------
(* Properties of the values (SpecNumeric: one-dimensional grids)           *)

(* The coordinate asked for: the scalar given by position, or the one      *)
(* element of the array given as x.                                        *)
QueryX == IF last.points # <<>> THEN last.points[1].flat[1] ELSE last.kwargs["x"].flat[1]

Knot(i) == mesh.coords[1][i]
Sample(i) == mesh.data.flat[i]
LastKnot == Len(mesh.coords[1])

(* The line through the first two samples, and whether every sample is on  *)
(* it.                                                                     *)
LineSlope == RDiv(RSub(Sample(2), Sample(1)), RSub(Knot(2), Knot(1)))
LineAt(x) == RAdd(Sample(1), RMul(LineSlope, RSub(x, Knot(1))))
DataOnLine == \A i \in 1..LastKnot : Sample(i) = LineAt(Knot(i))

LinearCallOnLine ==
    /\ last.op = "interpolation"
    /\ last.interp = "linear" /\ last.extrap = "linear"
    /\ LastKnot >= 2
    /\ DataOnLine

(* C7: on a one-dimensional grid of at least two breakpoints whose samples *)
(* are those of f(x) = a*x + b, interpolation with linear and linear       *)
(* returns f(x) at every x: inside the range, on a breakpoint, below the   *)
(* first and above the last breakpoint.                                    *)
C7_LinearReproducesLine ==
    LinearCallOnLine => (last.status = "ok" /\ last.result = Scalar(LineAt(QueryX)))

C7_Witness ==
    /\ LinearCallOnLine
    /\ LineSlope # R(0)
    /\ RLt(Knot(LastKnot), QueryX)
    /\ last.points # <<>>
    /\ last.result = Scalar(LineAt(QueryX))

(* C8: with extrap = hold and any interpolation method, a coordinate       *)
(* strictly below the first breakpoint of a one-dimensional grid gets the  *)
(* first sample and one strictly above the last breakpoint the last        *)
(* sample.                                                                 *)
C8_HoldReturnsBoundarySample ==
    (last.op = "interpolation" /\ last.extrap = "hold"
        /\ last.interp \in Range(InterpNames))
        => /\ RLt(QueryX, Knot(1)) => last.result = Scalar(Sample(1))
           /\ RLt(Knot(LastKnot), QueryX) => last.result = Scalar(Sample(LastKnot))

(* Breakpoints [0, 1, 2, 3], samples [0, 1, 4, 9], x = 5 gives 9.          *)
C8_Witness ==
    /\ mesh = SquareMesh
    /\ last.op = "interpolation" /\ last.extrap = "hold" /\ last.interp = "akima"
    /\ QueryX = R(5)
    /\ last.result = Scalar(R(9))

----------------------------------------------------------------------------
(* interpolation_NDT_eval against interpolation                            *)

NDTEvalReturned == last.op = "interpolation_NDT_eval" /\ pc = "returned"

(* The call that has returned ended as r does: same status, same           *)
(* exception, same values.                                                 *)
SameOutcome(r) ==
    /\ r.status = last.status
    /\ r.error = last.error
    /\ r.result = last.result

Vectorized(u) ==
    InterpolationCall(mesh, last.points, last.kwargs, last.interp, last.extrap, u)

(* C11: a call of interpolation_NDT_eval, its points looked up one at a    *)
(* time in whatever order, ends as the single vectorized call of           *)
(* interpolation with the same arguments can end: same values, or the same *)
(* exception.                                                              *)
C11_OneAtATimeEqualsVectorized ==
    NDTEvalReturned => \E u \in Undefined : SameOutcome(Vectorized(u))

(* The call in which the two part: every dimension has an argument, the    *)
(* first an array of the full length, a later one an array of length 1.    *)
C11_Witness ==
    /\ NDTEvalReturned
    /\ Counted = Len(mesh.dims)
    /\ ~LengthMismatch
    /\ last.error = "index"
    /\ \A u \in Undefined : Vectorized(u).error # "index"

(* No argument is an array shorter than the number of points.              *)
FullLengths ==
    \A d \in 1..Len(mesh.dims) :
        ArgOfDim(d).shape = <<>> \/ LenOf(ArgOfDim(d)) = CommonLen

(* The point of index k of a call that gives every dimension a scalar or   *)
(* an array of the full length.                                            *)
QueryPoint(k) ==
    [d \in 1..Len(mesh.dims) |->
        IF ArgOfDim(d).shape = <<>> THEN ArgOfDim(d).flat[1] ELSE ArgOfDim(d).flat[k]]

(* With scalars and arrays of the full length only, on a table with        *)
(* strictly increasing breakpoints, the two calls end alike, and the value *)
(* of index k is the lookup at the point of index k alone.                 *)
NDTEvalSameOnFullLengths ==
    (NDTEvalReturned /\ (Counted = Len(mesh.dims) => FullLengths))
        => /\ SameOutcome(Vectorized(Defined))
           /\ last.status = "ok" =>
                 \A k \in 1..CommonLen :
                    last.evals # <<>> /\
                    (IF CommonLen = 1 THEN last.result.flat[1] ELSE last.result.flat[k])
                        = EvalPoint(mesh, QueryPoint(k), last.interp, last.extrap)

----------------------------------------------------------------------------
(* The methods __call__ evaluates with                                     *)

Called == last.op = "__call__"

Passed(key) == key \in DOMAIN last.kwargs

(* The methods of the rule: hold and hold under the step option;           *)
(* otherwise the caller's interp (linear when none was passed) and the     *)
(* caller's extrap, which when none was passed is linear under the         *)
(* extrapolate option and hold without it.                                 *)
RuleInterp ==
    IF options.step THEN "hold"
    ELSE IF Passed("interp") THEN last.kwargs["interp"]
    ELSE "linear"

RuleExtrap ==
    IF options.step THEN "hold"
    ELSE IF Passed("extrap") THEN last.kwargs["extrap"]
    ELSE IF options.extrapolate THEN "linear"
    ELSE "hold"

CoordKwargs == [k \in (DOMAIN last.kwargs) \ {"interp", "extrap"} |-> last.kwargs[k]]

(* C13: a call of the table ends as interpolation does with the methods of *)
(* the rule, and when it reaches the native routine it enters it with the  *)
(* numbers of those methods.                                               *)
C13_CallSelectsMethods ==
    Called =>
        /\ SameOutcome(InterpolationCall(mesh, last.points, CoordKwargs,
                                         RuleInterp, RuleExtrap, Defined))
        /\ \A i \in 1..Len(last.evals) :
              /\ InterpNames[last.evals[i].interp] = RuleInterp
              /\ ExtrapNames[last.evals[i].extrap] = RuleExtrap

(* The extrapolate option is on, step is off, the caller passed extrap     *)
(* hold, and the point beyond the range got the boundary sample.           *)
C13_Witness ==
    /\ Called
    /\ mesh = SquareMesh
    /\ options.extrapolate /\ ~options.step
    /\ Passed("extrap") /\ last.kwargs["extrap"] = "hold"
    /\ last.points = <<Scalar(R(5))>>
    /\ last.status = "ok"
    /\ last.result = Scalar(R(9))

----------------------------------------------------------------------------
(* The table stays as it was constructed                                   *)

(* C12: no step taken once the table is constructed changes its            *)
(* dimensions, its breakpoints, the shape of its data or its samples:      *)
(* neither a call of the table, of interpolation, of derivate, of          *)
(* interpolation_NDT_eval or of resample, whether it returns or raises,    *)
(* nor a modification of a table that resample returned.                   *)
C12_GridNeverMutated == [][mesh' = mesh]_vars

(* The kept table shares a coordinate object with the table it was         *)
(* resampled from, has had a sample and breakpoints modified, and a call   *)
(* made since on the first table has returned.                             *)
C12_Witness ==
    /\ mesh = UnitMesh(MaxNdim)
    /\ kept.grid # NoMesh
    /\ kept.writes = MaxWrites
    /\ kept.grid.data.flat[1] = R(7)
    /\ kept.coords[1] = <<"caller", 1>>
    /\ kept.coords[MaxNdim] = SelfCoord(MaxNdim)
    /\ last.op = "interpolation_NDT_eval"
    /\ last.status = "ok"

----------------------------------------------------------------------------
(* The binding of the arguments to the dimensions                          *)

(* The dimensions that have no keyword of their name.                      *)
Unnamed == {d \in 1..Len(mesh.dims) : mesh.dims[d] \notin DOMAIN last.kwargs}

(* a is the array the argument arg is handed over as: arg itself, or arg   *)
(* at every index when arg is a scalar.                                    *)
ArrayOf(a, arg) ==
    IF arg.shape = <<>>
    THEN a.shape # <<>> /\ \A k \in 1..Len(a.flat) : a.flat[k] = arg.flat[1]
    ELSE a = arg

(* C14: when the arity assertion passes, the binding finds an argument for *)
(* every dimension (no pop from an empty list); there are as many          *)
(* positionals as dimensions without a keyword; and the arrays the native  *)
(* routine is entered with are, dimension by dimension, the keyword of the *)
(* dimension's name or else the positional whose rank is the dimension's   *)
(* rank among the dimensions without a keyword.                            *)
C14_BoundInDimensionOrder ==
    (IsQuery /\ Counted = Len(mesh.dims))
        => /\ last.error # "index"
           /\ Cardinality(Unnamed) = Len(last.points)
           /\ \A i \in 1..Len(last.evals) :
                 /\ Len(last.evals[i].points) = Len(mesh.dims)
                 /\ \A d \in 1..Len(mesh.dims) :
                       ArrayOf(last.evals[i].points[d], ArgOfDim(d))

(* Three dimensions: the second by keyword, the first and the third by     *)
(* position, a keyword that names no dimension beside them.                *)
C14_Witness ==
    /\ IsQuery
    /\ Len(mesh.dims) = MaxNdim + 1
    /\ DOMAIN last.kwargs = {mesh.dims[2], AXES[MaxNdim + 2]}
    /\ last.points = <<Scalar(R(0)), Ramp(2)>>
    /\ last.status = "ok"
    /\ last.evals[1].points[1] = Vec(<<R(0), R(0)>>)
    /\ last.evals[1].points[2] = last.kwargs[mesh.dims[2]]
    /\ last.evals[1].points[MaxNdim + 1] = Ramp(2)

====
